---- MODULE Spec2Model ----
(***************************************************************************)
(* Model of apps/SoapySDRUtil.cpp: the command line loop of main, the      *)
(* dispatch that follows it, and the workflows printHelp, printInfo,       *)
(* findDevices, makeDevice, probeDevice and checkDriver.                   *)
(*                                                                         *)
(* Strings are sequences of character codes, so that std::sort's           *)
(* lexicographic order and std::stod's parse are computed, not assumed.    *)
(* The library behind the calls (enumerate, make, loadModule, ...) is the  *)
(* environment: each call draws its result from a small set at the step    *)
(* where the code makes the call.                                          *)
(***************************************************************************)
EXTENDS Integers, Sequences, FiniteSets, TLC

VARIABLES
    argv,             \* the options getopt_long_only has returned so far
    argStr, chanStr, dirStr, sampleRate, driverName,
    findDevicesFlag, sparsePrintFlag, makeDeviceFlag, probeDeviceFlag,
    pc,               \* position of the single thread of control
    exitCode,         \* <<>> until main returns, then <<value>>
    out,              \* what was written, in order, to cout and cerr
    calls,            \* the calls made into the library, in order
    device,           \* the local `device` of makeDevice / probeDevice
    registry,         \* the process wide factory registry (driver names)
    modules,          \* printInfo's local `modules`
    modIdx,           \* position of printInfo's module loop
    results,          \* findDevices' local `results`
    thrown,           \* the calls that threw an exception, in order
    ran               \* the workflows entered, in order

vars == <<argv, argStr, chanStr, dirStr, sampleRate, driverName,
          findDevicesFlag, sparsePrintFlag, makeDeviceFlag, probeDeviceFlag,
          pc, exitCode, out, calls, device, registry, modules, modIdx, results,
          thrown, ran>>

parsed == <<argStr, chanStr, dirStr, sampleRate, driverName,
            findDevicesFlag, sparsePrintFlag, makeDeviceFlag, probeDeviceFlag>>

(***************************************************************************)
(* Bounds                                                                  *)
(***************************************************************************)
MaxArgs == 2        \* options on one command line
MaxDevices == 3     \* descriptors one enumeration returns
MaxModules == 2     \* modules listModules returns

EXIT_SUCCESS == 0
EXIT_FAILURE == 1

(***************************************************************************)
(* Strings                                                                 *)
(***************************************************************************)
EmptyStr == <<>>
StrLabel == <<108, 97, 98, 101, 108>>          \* "label"
StrDriver == <<100, 114, 105, 118, 101, 114>>  \* "driver"
StrA == <<97>>                                 \* "a"
StrB == <<98>>                                 \* "b"
StrD == <<100>>                                \* "d"
StrArgs == <<100, 114, 105, 118, 101, 114, 61, 100>>  \* "driver=d"
StrZero == <<48>>                              \* "0"
StrTwo == <<50>>                               \* "2"
StrJunk == <<120>>                             \* "x"

\* std::string operator< : lexicographic on character codes
RECURSIVE StrLess(_, _)
StrLess(s, t) ==
    IF t = <<>> THEN FALSE
    ELSE IF s = <<>> THEN TRUE
    ELSE IF s[1] < t[1] THEN TRUE
    ELSE IF s[1] > t[1] THEN FALSE
    ELSE StrLess(Tail(s), Tail(t))

IsDigit(c) == c >= 48 /\ c <= 57

\* std::stod on the strings of the model: the value of the leading decimal
\* digits; without a leading digit no conversion is performed and
\* std::invalid_argument is thrown
StodThrows(s) == s = <<>> \/ ~IsDigit(s[1])

RECURSIVE StodDigits(_, _)
StodDigits(s, acc) ==
    IF s = <<>> \/ ~IsDigit(s[1]) THEN acc
    ELSE StodDigits(Tail(s), acc * 10 + (s[1] - 48))

Stod(s) == StodDigits(s, 0)

(***************************************************************************)
(* The command line                                                        *)
(***************************************************************************)
\* one option as getopt_long_only reports it: the val of long_options, or
\* "?" for an unknown option, and optarg (has = FALSE: optarg is nullptr)
Opt(o) == [opt |-> o, has |-> FALSE, arg |-> EmptyStr]
OptWith(o, a) == [opt |-> o, has |-> TRUE, arg |-> a]

Options ==
    { Opt("h"), Opt("i"), Opt("f"), OptWith("f", StrArgs), Opt("m"),
      Opt("p"), OptWith("c", StrD), OptWith("c", EmptyStr), Opt("s"),
      OptWith("a", StrArgs), OptWith("r", StrZero), OptWith("r", StrTwo),
      OptWith("r", StrJunk), OptWith("n", StrZero), OptWith("d", StrA),
      Opt("?") }

SeqsUpTo(S, n) == UNION { [1..k -> S] : k \in 0..n }

Init ==
    /\ argv = <<>>
    /\ argStr = EmptyStr
    /\ chanStr = EmptyStr
    /\ dirStr = EmptyStr
    /\ sampleRate = 0
    /\ driverName = EmptyStr
    /\ findDevicesFlag = FALSE
    /\ sparsePrintFlag = FALSE
    /\ makeDeviceFlag = FALSE
    /\ probeDeviceFlag = FALSE
    /\ pc = "parse"
    /\ exitCode = <<>>
    /\ out = <<>>
    /\ calls = <<>>
    /\ device = "Unconstructed"
    /\ registry = {}
    /\ modules = <<>>
    /\ modIdx = 1
    /\ results = <<>>
    /\ thrown = <<>>
    /\ ran = <<>>

(***************************************************************************)
(* Output and call records                                                 *)
(***************************************************************************)
Cout(tag, idx, val) == [stream |-> "cout", tag |-> tag, idx |-> idx, val |-> val]
Cerr(tag, idx, val) == [stream |-> "cerr", tag |-> tag, idx |-> idx, val |-> val]

\* a call into the library, with the state of the handle when it is made
CallOn(fn, arg, dev) == [fn |-> fn, arg |-> arg, dev |-> dev]
Call(fn, arg) == CallOn(fn, arg, device)

printBanner == <<Cerr("Banner", 0, EmptyStr)>>
printHelp == <<Cerr("Usage", 0, EmptyStr)>>

Return(code) ==
    /\ exitCode' = <<code>>
    /\ pc' = "done"

workflowState == <<exitCode, out, calls, device, registry, modules, modIdx,
                   results, thrown, ran>>

(***************************************************************************)
(* main: the option loop.  Each iteration calls getopt_long_only, which    *)
(* returns the next option of the command line (o) or -1 at its end.       *)
(***************************************************************************)
GetOpt(o, c) ==
    /\ pc = "parse"
    /\ Len(argv) < MaxArgs
    /\ o.opt = c
    /\ argv' = Append(argv, o)

OptHelp ==
    /\ \E o \in Options : GetOpt(o, "h")
    /\ out' = out \o printBanner \o printHelp
    /\ ran' = Append(ran, "help")
    /\ Return(EXIT_SUCCESS)
    /\ UNCHANGED <<parsed, calls, device, registry, modules, modIdx, results,
                   thrown>>

OptInfo ==
    /\ \E o \in Options : GetOpt(o, "i")
    /\ out' = out \o printBanner
    /\ ran' = Append(ran, "info")
    /\ pc' = "printInfo"
    /\ UNCHANGED <<parsed, exitCode, calls, device, registry, modules, modIdx,
                   results, thrown>>

OptFind ==
    \E o \in Options :
        /\ GetOpt(o, "f")
        /\ findDevicesFlag' = TRUE
        /\ argStr' = IF o.has THEN o.arg ELSE argStr
        /\ UNCHANGED <<chanStr, dirStr, sampleRate, driverName,
                       sparsePrintFlag, makeDeviceFlag, probeDeviceFlag, pc,
                       workflowState>>

OptMake ==
    \E o \in Options :
        /\ GetOpt(o, "m")
        /\ makeDeviceFlag' = TRUE
        /\ argStr' = IF o.has THEN o.arg ELSE argStr
        /\ UNCHANGED <<chanStr, dirStr, sampleRate, driverName,
                       sparsePrintFlag, findDevicesFlag, probeDeviceFlag, pc,
                       workflowState>>

OptProbe ==
    \E o \in Options :
        /\ GetOpt(o, "p")
        /\ probeDeviceFlag' = TRUE
        /\ argStr' = IF o.has THEN o.arg ELSE argStr
        /\ UNCHANGED <<chanStr, dirStr, sampleRate, driverName,
                       sparsePrintFlag, findDevicesFlag, makeDeviceFlag, pc,
                       workflowState>>

OptCheck ==
    \E o \in Options :
        /\ GetOpt(o, "c")
        /\ driverName' = IF o.has THEN o.arg ELSE driverName
        /\ UNCHANGED <<argStr, chanStr, dirStr, sampleRate, sparsePrintFlag,
                       findDevicesFlag, makeDeviceFlag, probeDeviceFlag, pc,
                       workflowState>>

OptSparse ==
    \E o \in Options :
        /\ GetOpt(o, "s")
        /\ sparsePrintFlag' = TRUE
        /\ UNCHANGED <<argStr, chanStr, dirStr, sampleRate, driverName,
                       findDevicesFlag, makeDeviceFlag, probeDeviceFlag, pc,
                       workflowState>>

OptArgs ==
    \E o \in Options :
        /\ GetOpt(o, "a")
        /\ argStr' = IF o.has THEN o.arg ELSE argStr
        /\ UNCHANGED <<chanStr, dirStr, sampleRate, driverName,
                       sparsePrintFlag, findDevicesFlag, makeDeviceFlag,
                       probeDeviceFlag, pc, workflowState>>

\* std::stod throws std::invalid_argument on an optarg that is no number;
\* nothing in main catches it, so the process is terminated there
OptRate ==
    \E o \in Options :
        /\ o.opt = "r"
        /\ pc = "parse"
        /\ Len(argv) < MaxArgs
        /\ argv' = Append(argv, o)
        /\ IF o.has /\ StodThrows(o.arg)
           THEN /\ pc' = "aborted"
                /\ thrown' = Append(thrown, "stod")
                /\ UNCHANGED sampleRate
           ELSE /\ sampleRate' = IF o.has THEN Stod(o.arg) ELSE sampleRate
                /\ UNCHANGED <<pc, thrown>>
        /\ UNCHANGED <<argStr, chanStr, dirStr, driverName, sparsePrintFlag,
                       findDevicesFlag, makeDeviceFlag, probeDeviceFlag,
                       exitCode, out, calls, device, registry, modules,
                       modIdx, results, ran>>

OptChannels ==
    \E o \in Options :
        /\ GetOpt(o, "n")
        /\ chanStr' = IF o.has THEN o.arg ELSE chanStr
        /\ UNCHANGED <<argStr, dirStr, sampleRate, driverName,
                       sparsePrintFlag, findDevicesFlag, makeDeviceFlag,
                       probeDeviceFlag, pc, workflowState>>

OptDirection ==
    \E o \in Options :
        /\ GetOpt(o, "d")
        /\ dirStr' = IF o.has THEN o.arg ELSE dirStr
        /\ UNCHANGED <<argStr, chanStr, sampleRate, driverName,
                       sparsePrintFlag, findDevicesFlag, makeDeviceFlag,
                       probeDeviceFlag, pc, workflowState>>

\* an option the table does not hold: getopt returns '?', no case matches
OptUnknown ==
    \E o \in Options :
        /\ GetOpt(o, "?")
        /\ UNCHANGED <<parsed, pc, workflowState>>

(***************************************************************************)
(* main: the dispatch after the loop (getopt_long_only returned -1)        *)
(***************************************************************************)
\* mutant: the make test is placed before the find test
SelectWorkflow_MakeFirst(dn, ff, mf, pf, rate) ==
    IF dn # EmptyStr THEN "check"
    ELSE IF mf THEN "make"
    ELSE IF ff THEN "find"
    ELSE IF pf THEN "probe"
    ELSE IF rate # 0 THEN "rate"
    ELSE "help"

SelectWorkflow(dn, ff, mf, pf, rate) ==
    IF dn # EmptyStr THEN "check"
    ELSE IF ff THEN "find"
    ELSE IF mf THEN "make"
    ELSE IF pf THEN "probe"
    ELSE IF rate # 0 THEN "rate"
    ELSE "help"

EntryPc(w) ==
    CASE w = "check" -> "checkDriver"
      [] w = "find" -> "findDevices"
      [] w = "make" -> "makeDevice"
      [] w = "probe" -> "probeDevice"
      [] w = "rate" -> "rateTest"
      [] OTHER -> "done"

\* mutant: the banner is printed without looking at the sparse flag
DispatchBanner_Always(sparse) == printBanner

DispatchBanner(sparse) == IF ~sparse THEN printBanner ELSE <<>>

Dispatch ==
    /\ pc = "parse"
    /\ LET w == SelectWorkflow(driverName, findDevicesFlag, makeDeviceFlag,
                               probeDeviceFlag, sampleRate)
       IN /\ ran' = Append(ran, w)
          /\ pc' = EntryPc(w)
          /\ IF w = "help"
             THEN /\ out' = out \o DispatchBanner(sparsePrintFlag) \o printHelp
                  /\ exitCode' = <<EXIT_SUCCESS>>
             ELSE /\ out' = out \o DispatchBanner(sparsePrintFlag)
                  /\ UNCHANGED exitCode
    /\ UNCHANGED <<argv, parsed, calls, device, registry, modules, modIdx,
                   results, thrown>>

(***************************************************************************)
(* Kwargs: a std::map<std::string, std::string>, kept as the sequence of   *)
(* its pairs in iteration order (ascending keys).                          *)
(***************************************************************************)
KV(k, v) == [key |-> k, val |-> v]

Descriptors ==
    { <<>>,
      <<KV(StrLabel, StrB)>>,
      <<KV(StrDriver, StrD), KV(StrLabel, StrA)>>,
      <<KV(StrDriver, StrD)>> }

\* Kwargs::find(key) != end()
KwargsHas(kw, k) == \E i \in 1..Len(kw) : kw[i].key = k

KwargsAt(kw, k) == kw[CHOOSE i \in 1..Len(kw) : kw[i].key = k].val

\* SoapySDR::KwargsToString: "key=value" pairs joined by ", "
RECURSIVE KwargsToString(_)
KwargsToString(kw) ==
    IF kw = <<>> THEN EmptyStr
    ELSE LET rest == KwargsToString(Tail(kw))
         IN kw[1].key \o <<61>> \o kw[1].val
            \o (IF Tail(kw) = <<>> THEN EmptyStr ELSE <<44, 32>> \o rest)

(***************************************************************************)
(* findDevices                                                             *)
(***************************************************************************)
\* the string the sparse branch collects for one descriptor
SparseEntry(d) ==
    IF KwargsHas(d, StrLabel) THEN KwargsAt(d, StrLabel)
    ELSE KwargsToString(d)

SparseResults(res) == [i \in 1..Len(res) |-> SparseEntry(res[i])]

\* std::sort on a vector of strings
RECURSIVE InsertSorted(_, _)
InsertSorted(s, x) ==
    IF s = <<>> THEN <<x>>
    ELSE IF StrLess(x, s[1]) THEN <<x>> \o s
    ELSE <<s[1]>> \o InsertSorted(Tail(s), x)

\* mutant: the sort is left out
StdSort_Omitted(s) == s

RECURSIVE StdSort(_)
StdSort(s) ==
    IF s = <<>> THEN <<>>
    ELSE InsertSorted(StdSort(Tail(s)), s[1])

SparsePrint(res) ==
    LET sorted == StdSort(SparseResults(res))
    IN [i \in 1..Len(sorted) |-> Cout("SparseEntry", i - 1, sorted[i])]

FullPrint(res) ==
    [i \in 1..Len(res) |-> Cout("FoundDevice", i - 1, res[i])]

\* mutant: the full branch prints no notice for an empty result
FullTrailer_Silent(res) ==
    IF res = <<>> THEN <<>> ELSE <<Cout("BlankLine", 0, EmptyStr)>>

\* the tail of the full branch
FullTrailer(res) ==
    IF res = <<>> THEN <<Cerr("NoDevicesFound", 0, EmptyStr)>>
    ELSE <<Cout("BlankLine", 0, EmptyStr)>>

FindOutput(res, sparse) ==
    IF sparse THEN SparsePrint(res)
    ELSE FullPrint(res) \o FullTrailer(res)

\* mutant: a single descriptor is reported as "nothing found"
FindReturn_OffByOne(res) == IF Len(res) <= 1 THEN EXIT_FAILURE ELSE EXIT_SUCCESS

FindReturn(res) == IF res = <<>> THEN EXIT_FAILURE ELSE EXIT_SUCCESS

findDevices ==
    /\ pc = "findDevices"
    /\ \E res \in SeqsUpTo(Descriptors, MaxDevices) :
        /\ results' = res
        /\ calls' = Append(calls, Call("enumerate", argStr))
        /\ out' = out \o FindOutput(res, sparsePrintFlag)
        /\ Return(FindReturn(res))
    /\ UNCHANGED <<argv, parsed, device, registry, modules, modIdx, thrown,
                   ran>>

(***************************************************************************)
(* makeDevice                                                              *)
(***************************************************************************)
\* mutant: the catch block falls through to the function's last return
CatchReturn_FallThrough == EXIT_SUCCESS

\* what the catch blocks return
CatchReturn == EXIT_FAILURE

\* fn throws inside the try block (after `pre` was printed): control goes
\* to the catch block, which writes the message to cerr and returns
Catch(fn, pre, tag) ==
    /\ thrown' = Append(thrown, fn)
    /\ out' = out \o pre \o <<Cerr(tag, 0, EmptyStr)>>
    /\ Return(CatchReturn)

makeDeviceMake ==
    /\ pc = "makeDevice"
    /\ calls' = Append(calls, Call("make", argStr))
    /\ \E throws \in BOOLEAN :
        IF throws
        THEN /\ Catch("make", <<Cout("MakeDevice", 0, argStr)>>, "ErrorMaking")
             /\ UNCHANGED device
        ELSE /\ out' = Append(out, Cout("MakeDevice", 0, argStr))
             /\ device' = "Live"
             /\ pc' = "make_driverKey"
             /\ UNCHANGED <<exitCode, thrown>>
    /\ UNCHANGED <<argv, parsed, registry, modules, modIdx, results, ran>>

\* one of the three accessors of lines 175-177, called on `device`
MakeAccessor(at, fn, tag, nextPc) ==
    /\ pc = at
    /\ calls' = Append(calls, Call(fn, EmptyStr))
    /\ \E throws \in BOOLEAN :
        IF throws
        THEN Catch(fn, <<>>, "ErrorMaking")
        ELSE /\ out' = Append(out, Cout(tag, 0, EmptyStr))
             /\ pc' = nextPc
             /\ UNCHANGED <<exitCode, thrown>>
    /\ UNCHANGED <<argv, parsed, device, registry, modules, modIdx, results,
                   ran>>

makeDeviceDriverKey ==
    MakeAccessor("make_driverKey", "getDriverKey", "driver", "make_hardwareKey")

makeDeviceHardwareKey ==
    MakeAccessor("make_hardwareKey", "getHardwareKey", "hardware",
                 "make_hardwareInfo")

makeDeviceHardwareInfo ==
    MakeAccessor("make_hardwareInfo", "getHardwareInfo", "hardwareInfo",
                 "make_unmake")

\* mutant: the handle is released a second time
makeDeviceUnmake_Twice ==
    /\ pc = "make_unmake"
    /\ calls' = calls \o <<CallOn("unmake", EmptyStr, "Live"),
                           CallOn("unmake", EmptyStr, "Released")>>
    /\ device' = "Released"
    /\ out' = Append(out, Cout("BlankLine", 0, EmptyStr))
    /\ Return(EXIT_SUCCESS)
    /\ UNCHANGED <<argv, parsed, registry, modules, modIdx, results, ran,
                   thrown>>

makeDeviceUnmake ==
    /\ pc = "make_unmake"
    /\ calls' = Append(calls, Call("unmake", EmptyStr))
    /\ device' = "Released"
    /\ out' = Append(out, Cout("BlankLine", 0, EmptyStr))
    /\ Return(EXIT_SUCCESS)
    /\ UNCHANGED <<argv, parsed, registry, modules, modIdx, results, ran,
                   thrown>>

(***************************************************************************)
(* probeDevice                                                             *)
(***************************************************************************)
probeDeviceMake ==
    /\ pc = "probeDevice"
    /\ calls' = Append(calls, Call("make", argStr))
    /\ \E throws \in BOOLEAN :
        IF throws
        THEN /\ Catch("make", <<Cout("ProbeDevice", 0, argStr)>>, "ErrorProbing")
             /\ UNCHANGED device
        ELSE /\ out' = Append(out, Cout("ProbeDevice", 0, argStr))
             /\ device' = "Live"
             /\ pc' = "probe_probe"
             /\ UNCHANGED <<exitCode, thrown>>
    /\ UNCHANGED <<argv, parsed, registry, modules, modIdx, results, ran>>

probeDeviceProbe ==
    /\ pc = "probe_probe"
    /\ calls' = Append(calls, Call("SoapySDRDeviceProbe", EmptyStr))
    /\ \E throws \in BOOLEAN :
        IF throws
        THEN Catch("SoapySDRDeviceProbe", <<>>, "ErrorProbing")
        ELSE /\ out' = Append(out, Cout("probe", 0, EmptyStr))
             /\ pc' = "probe_unmake"
             /\ UNCHANGED <<exitCode, thrown>>
    /\ UNCHANGED <<argv, parsed, device, registry, modules, modIdx, results,
                   ran>>

probeDeviceUnmake ==
    /\ pc = "probe_unmake"
    /\ calls' = Append(calls, Call("unmake", EmptyStr))
    /\ device' = "Released"
    /\ out' = Append(out, Cout("BlankLine", 0, EmptyStr))
    /\ Return(EXIT_SUCCESS)
    /\ UNCHANGED <<argv, parsed, registry, modules, modIdx, results, ran,
                   thrown>>

(***************************************************************************)
(* checkDriver                                                             *)
(***************************************************************************)
\* the driver names the installed modules can register
Drivers == {StrD, StrB}

checkDriverLoad ==
    /\ pc = "checkDriver"
    /\ calls' = Append(calls, Call("loadModules", EmptyStr))
    /\ \E loaded \in SUBSET Drivers : registry' = registry \cup loaded
    /\ out' = Append(out, Cout("LoadingModulesDone", 0, EmptyStr))
    /\ pc' = "check_query"
    /\ UNCHANGED <<argv, parsed, exitCode, device, modules, modIdx, results,
                   ran,
                   thrown>>

\* mutant: the comparison with end() is inverted
CheckMissing_Inverted(factories, name) == name \in factories

\* factories.find(driverName) == factories.end()
CheckMissing(factories, name) == name \notin factories

checkDriverQuery ==
    /\ pc = "check_query"
    /\ calls' = Append(calls, Call("listFindFunctions", EmptyStr))
    /\ IF CheckMissing(registry, driverName)
       THEN /\ out' = Append(out, Cout("MISSING", 0, driverName))
            /\ Return(EXIT_FAILURE)
       ELSE /\ out' = Append(out, Cout("PRESENT", 0, driverName))
            /\ Return(EXIT_SUCCESS)
    /\ UNCHANGED <<argv, parsed, device, registry, modules, modIdx, results,
                   ran,
                   thrown>>

(***************************************************************************)
(* printInfo                                                               *)
(***************************************************************************)
ModuleNames == {StrB, StrDriver}

\* what listSearchPaths returns, each path with the outcome of stat on it
SearchPathLists ==
    { <<[path |-> StrA, missing |-> TRUE]>>,
      <<[path |-> StrLabel, missing |-> FALSE]>> }

\* what loadModule, getModuleVersion and the module's registrations yield
ModuleOutcomes ==
    { [errMsg |-> StrJunk, version |-> EmptyStr, factories |-> {}],
      [errMsg |-> EmptyStr, version |-> EmptyStr, factories |-> {}],
      [errMsg |-> EmptyStr, version |-> StrTwo, factories |-> {StrD}] }

RECURSIVE MaxLen(_)
MaxLen(strs) ==
    IF strs = <<>> THEN 0
    ELSE LET m == MaxLen(Tail(strs))
         IN IF Len(strs[1]) > m THEN Len(strs[1]) ELSE m

PathLine(p, maxPathLen) ==
    IF p.missing THEN Cout("SearchPathMissing", maxPathLen - Len(p.path), p.path)
    ELSE Cout("SearchPath", 0, p.path)

printInfoHeader ==
    /\ pc = "printInfo"
    /\ \E searchPaths \in SearchPathLists,
          mods \in SeqsUpTo(ModuleNames, MaxModules) :
        LET maxPathLen ==
                MaxLen([i \in 1..Len(searchPaths) |-> searchPaths[i].path]
                       \o mods)
        IN /\ modules' = mods
           /\ calls' = calls \o <<Call("listSearchPaths", EmptyStr),
                                  Call("listModules", EmptyStr)>>
           /\ out' = out \o <<Cout("Versions", 0, EmptyStr)>>
                     \o [i \in 1..Len(searchPaths) |->
                            PathLine(searchPaths[i], maxPathLen)]
    /\ modIdx' = 1
    /\ pc' = "info_modules"
    /\ UNCHANGED <<argv, parsed, exitCode, device, registry, results, ran,
                   thrown>>

\* mutant: a module that fails to load ends the report with a failure
printInfoModule_AbortOnError ==
    /\ pc = "info_modules"
    /\ modIdx <= Len(modules)
    /\ \E o \in ModuleOutcomes :
        /\ calls' = Append(calls, Call("loadModule", modules[modIdx]))
        /\ registry' = registry \cup o.factories
        /\ out' = Append(out, Cout("ModuleFound", modIdx - 1,
                                   <<modules[modIdx], o.errMsg, o.version>>))
        /\ IF o.errMsg # EmptyStr
           THEN Return(EXIT_FAILURE)
           ELSE UNCHANGED <<pc, exitCode>>
    /\ modIdx' = modIdx + 1
    /\ UNCHANGED <<argv, parsed, device, modules, results, ran, thrown>>

\* one iteration of the module loop
printInfoModule ==
    /\ pc = "info_modules"
    /\ modIdx <= Len(modules)
    /\ \E o \in ModuleOutcomes :
        /\ calls' = calls \o <<Call("loadModule", modules[modIdx]),
                               Call("getModuleVersion", modules[modIdx])>>
        /\ registry' = registry \cup o.factories
        /\ out' = Append(out, Cout("ModuleFound", modIdx - 1,
                                   <<modules[modIdx], o.errMsg, o.version>>))
    /\ modIdx' = modIdx + 1
    /\ UNCHANGED <<argv, parsed, pc, exitCode, device, modules, results, ran,
                   thrown>>

\* after the loop: the factories and the converters, then return
printInfoFactories ==
    /\ pc = "info_modules"
    /\ modIdx > Len(modules)
    /\ calls' = calls \o <<Call("listFindFunctions", EmptyStr),
                           Call("listAvailableSourceFormats", EmptyStr)>>
    /\ out' = out
              \o (IF modules = <<>> THEN <<Cout("NoModulesFound", 0, EmptyStr)>>
                  ELSE <<>>)
              \o <<Cout("Factories", Cardinality(registry), EmptyStr),
                   Cout("Converters", 0, EmptyStr)>>
    /\ Return(EXIT_SUCCESS)
    /\ UNCHANGED <<argv, parsed, device, registry, modules, modIdx, results,
                   ran,
                   thrown>>

(***************************************************************************)
(* SoapySDRRateTest, external to this file: only its call and its return   *)
(***************************************************************************)
rateTest ==
    /\ pc = "rateTest"
    /\ calls' = Append(calls, Call("SoapySDRRateTest",
                                   <<argStr, sampleRate, chanStr, dirStr>>))
    /\ \E rc \in {EXIT_SUCCESS, EXIT_FAILURE} : Return(rc)
    /\ UNCHANGED <<argv, parsed, out, device, registry, modules, modIdx,
                   results, ran,
                   thrown>>

Next ==
    \/ OptHelp \/ OptInfo \/ OptFind \/ OptMake \/ OptProbe \/ OptCheck
    \/ OptSparse \/ OptArgs \/ OptRate \/ OptChannels \/ OptDirection
    \/ OptUnknown \/ Dispatch
    \/ findDevices
    \/ makeDeviceMake \/ makeDeviceDriverKey \/ makeDeviceHardwareKey
    \/ makeDeviceHardwareInfo \/ makeDeviceUnmake
    \/ probeDeviceMake \/ probeDeviceProbe \/ probeDeviceUnmake
    \/ checkDriverLoad \/ checkDriverQuery
    \/ printInfoHeader \/ printInfoModule \/ printInfoFactories
    \/ rateTest

Spec == Init /\ [][Next]_vars

(***************************************************************************)
(* Properties                                                              *)
(***************************************************************************)
Fns == [i \in 1..Len(calls) |-> calls[i].fn]
Count(fn) == Cardinality({i \in 1..Len(calls) : calls[i].fn = fn})
Threw(fn) == \E i \in 1..Len(thrown) : thrown[i] = fn
Printed(stream, tag) ==
    \E i \in 1..Len(out) : out[i].stream = stream /\ out[i].tag = tag
Tagged(tag) == SelectSeq(out, LAMBDA e : e.tag = tag)
Given(c) == \E i \in 1..Len(argv) : argv[i].opt = c
GivenEarly == Given("h") \/ Given("i")

\* C1: in makeDevice and probeDevice, once Device::make has succeeded,
\* Device::unmake has been called exactly once on the handle by the time the
\* workflow returns, whichever path it returns on.
C1_UnmakeOncePerMake ==
    (pc = "done" /\ device # "Unconstructed") => Count("unmake") = 1

\* C2: when Device::make throws in makeDevice or probeDevice, the exception
\* is caught: a message is on the error stream, the workflow has returned 1,
\* unmake was never called and no handle is live; when nothing threw, the
\* workflow returns 0.
C2_ConstructionFailureCaught ==
    (ran = <<"make">> \/ ran = <<"probe">>) =>
        /\ Threw("make") =>
            /\ pc = "done"
            /\ exitCode = <<1>>
            /\ Printed("cerr", "ErrorMaking") \/ Printed("cerr", "ErrorProbing")
            /\ Count("unmake") = 0
            /\ device = "Unconstructed"
        /\ (pc = "done" /\ thrown = <<>>) => exitCode = <<0>>

C2_Witness ==
    /\ pc = "done"
    /\ ran = <<"probe">>
    /\ thrown = <<"make">>
    /\ exitCode = <<1>>

\* C3: findDevices returns non-zero exactly when the enumeration is empty
\* and 0 when it holds a descriptor, in sparse and in full mode alike.
C3_FindExitCode ==
    (pc = "done" /\ ran = <<"find">>) =>
        /\ (exitCode # <<0>>) <=> (results = <<>>)
        /\ exitCode = IF Len(results) >= 1 THEN <<0>> ELSE <<1>>

C3_Witness ==
    /\ pc = "done"
    /\ ran = <<"find">>
    /\ sparsePrintFlag
    /\ Len(results) = 1
    /\ exitCode = <<0>>

LastArg(c) ==
    LET I == {i \in 1..Len(argv) : argv[i].opt = c /\ argv[i].has}
    IN IF I = {} THEN EmptyStr
       ELSE argv[CHOOSE i \in I : \A j \in I : j <= i].arg

ExpectedWorkflow ==
    IF GivenEarly
    THEN LET k == CHOOSE i \in 1..Len(argv) :
                    /\ argv[i].opt \in {"h", "i"}
                    /\ \A j \in 1..(i - 1) : argv[j].opt \notin {"h", "i"}
         IN IF argv[k].opt = "h" THEN "help" ELSE "info"
    ELSE IF LastArg("c") # EmptyStr THEN "check"
    ELSE IF Given("f") THEN "find"
    ELSE IF Given("m") THEN "make"
    ELSE IF Given("p") THEN "probe"
    ELSE IF Stod(LastArg("r")) # 0 THEN "rate"
    ELSE "help"

UnparsableRate ==
    \E i \in 1..Len(argv) :
        argv[i].opt = "r" /\ argv[i].has /\ StodThrows(argv[i].arg)

\* C5 as stated: for every command line exactly one workflow runs: the
\* first --help or --info, with nothing read after it, else the one chosen
\* by check > find > make > probe > rate-test > help.
C5_OneWorkflowAlways ==
    pc # "parse" =>
        /\ ran = <<ExpectedWorkflow>>
        /\ GivenEarly => argv[Len(argv)].opt \in {"h", "i"}

\* C5 as amended: while options are read no workflow has run; a --rate
\* argument std::stod cannot convert ends the process there with no workflow
\* and no exit code; on every other command line exactly one workflow runs,
\* the first --help or --info with nothing read after it, else the one chosen
\* by check > find > make > probe > rate-test > help, and main returns what
\* it returns.
C5_OneWorkflowUnlessRateUnparsable ==
    /\ pc = "parse" => ran = <<>>
    /\ pc = "aborted" <=> UnparsableRate
    /\ pc = "aborted" => (ran = <<>> /\ exitCode = <<>>)
    /\ pc \notin {"parse", "aborted"} =>
        /\ ran = <<ExpectedWorkflow>>
        /\ GivenEarly => argv[Len(argv)].opt \in {"h", "i"}
        /\ pc = "done" => exitCode \in {<<0>>, <<1>>}
        /\ (pc = "done" /\ ran = <<"help">>) => exitCode = <<0>>

C5_Witness ==
    /\ pc = "done"
    /\ Len(argv) = 2
    /\ argv[1].opt = "m"
    /\ argv[2].opt = "f"
    /\ ran = <<"find">>

BannerCount == Len(Tagged("Banner"))

\* C6 as stated: the banner is written at most once, before any other
\* output, and never when --sparse is on the command line.
C6_SparseAlwaysSuppresses ==
    /\ BannerCount <= 1
    /\ BannerCount = 1 => out[1].tag = "Banner"
    /\ Given("s") => BannerCount = 0

\* C6 as amended: the banner is written at most once, before any other
\* output; --help and --info write it even after --sparse; when neither of
\* them is read, the banner is suppressed if --sparse was given and leads
\* the output otherwise.
C6_SparseSuppressesAtDispatch ==
    /\ BannerCount <= 1
    /\ BannerCount = 1 => (out[1].tag = "Banner" /\ out[1].stream = "cerr")
    /\ (Given("s") /\ ~GivenEarly) => BannerCount = 0
    /\ GivenEarly => BannerCount = 1
    /\ (out # <<>> /\ ~Given("s")) => BannerCount = 1

C6_Witness ==
    /\ pc = "done"
    /\ Given("s")
    /\ ran = <<"find">>
    /\ Len(results) = 2
    /\ Len(out) = 2
    /\ BannerCount = 0

\* C7: checkDriver makes one loadModules pass, then reads the registry, and
\* calls nothing else; it returns 0 exactly when driverName is registered
\* after the pass and 1 otherwise; no device is enumerated or made.
C7_CheckDriver ==
    ran = <<"check">> =>
        /\ Fns \in {<<>>, <<"loadModules">>,
                    <<"loadModules", "listFindFunctions">>}
        /\ device = "Unconstructed"
        /\ pc = "done" =>
            /\ Fns = <<"loadModules", "listFindFunctions">>
            /\ exitCode = IF driverName \in registry THEN <<0>> ELSE <<1>>

C7_Witness ==
    /\ pc = "done"
    /\ ran = <<"check">>
    /\ driverName \in registry
    /\ exitCode = <<0>>

LoadModuleArgs ==
    LET ld == SelectSeq(calls, LAMBDA c : c.fn = "loadModule")
    IN [i \in 1..Len(ld) |-> ld[i].arg]

\* C8: in printInfo a module that fails to load, or a missing search path,
\* aborts nothing: loadModule is called once per listed module, in listing
\* order, the loop can always go on, and the report reaches the factories
\* and the converters and returns 0.
C8_InfoScanNeverAborts ==
    ran = <<"info">> =>
        /\ pc \in {"printInfo", "info_modules", "done"}
        /\ LoadModuleArgs = SubSeq(modules, 1, modIdx - 1)
        /\ pc = "info_modules" => ENABLED (printInfoModule \/ printInfoFactories)
        /\ pc = "done" =>
            /\ LoadModuleArgs = modules
            /\ exitCode = <<0>>
            /\ Printed("cout", "Factories")
            /\ Printed("cout", "Converters")

C8_Witness ==
    /\ pc = "done"
    /\ ran = <<"info">>
    /\ Len(modules) = 2
    /\ Printed("cout", "SearchPathMissing")
    /\ \E i \in 1..Len(out) :
        /\ out[i].tag = "ModuleFound"
        /\ out[i].idx = 0
        /\ out[i].val[2] # EmptyStr

\* the text the sparse mode shows for a descriptor
ExpectedText(d) ==
    IF \E i \in 1..Len(d) : d[i].key = StrLabel
    THEN d[CHOOSE i \in 1..Len(d) : d[i].key = StrLabel].val
    ELSE KwargsToString(d)

Occurrences(seq, x) == Cardinality({i \in 1..Len(seq) : seq[i] = x})

\* C9: sparse mode prints one entry per descriptor (its label, else its
\* serialization), in non-decreasing lexicographic order, numbered 0..n-1;
\* full mode prints the descriptors numbered 0..n-1 in enumeration order.
C9_FindOrder ==
    (pc = "done" /\ ran = <<"find">>) =>
        LET sparseOut == Tagged("SparseEntry")
            fullOut == Tagged("FoundDevice")
            texts == [i \in 1..Len(sparseOut) |-> sparseOut[i].val]
            expected == [i \in 1..Len(results) |-> ExpectedText(results[i])]
        IN IF sparsePrintFlag
           THEN /\ fullOut = <<>>
                /\ Len(sparseOut) = Len(results)
                /\ \A i \in 1..Len(sparseOut) : sparseOut[i].idx = i - 1
                /\ \A i, j \in 1..Len(texts) :
                       i < j => ~StrLess(texts[j], texts[i])
                /\ \A k \in 1..Len(expected) :
                       Occurrences(texts, expected[k])
                           = Occurrences(expected, expected[k])
           ELSE /\ sparseOut = <<>>
                /\ Len(fullOut) = Len(results)
                /\ \A i \in 1..Len(fullOut) :
                       fullOut[i].idx = i - 1 /\ fullOut[i].val = results[i]

C9_Witness ==
    /\ pc = "done"
    /\ ran = <<"find">>
    /\ sparsePrintFlag
    /\ Len(results) = 3
    /\ StrLess(ExpectedText(results[3]), ExpectedText(results[2]))
    /\ StrLess(ExpectedText(results[2]), ExpectedText(results[1]))
    /\ \E k \in 1..3 : ~KwargsHas(results[k], StrLabel)

HandleUses ==
    {"getDriverKey", "getHardwareKey", "getHardwareInfo",
     "SoapySDRDeviceProbe", "unmake"}

C10_CallsOnLiveHandle ==
    /\ \A i \in 1..Len(calls) :
        /\ calls[i].fn \in HandleUses => calls[i].dev = "Live"
        /\ calls[i].fn = "make" => calls[i].dev = "Unconstructed"
    /\ Count("make") <= 1
    /\ Count("unmake") <= 1
    /\ device \in {"Unconstructed", "Live", "Released"}
    /\ (ran # <<>> /\ ran[1] \in {"find", "check", "info", "help"}) =>
        (Count("make") = 0 /\ device = "Unconstructed")

C10_HandleStep ==
    \/ device' = device
    \/ device = "Unconstructed" /\ device' = "Live"
    \/ device = "Live" /\ device' = "Released"

\* C10: the handle goes Unconstructed -> Live -> Released and no other way;
\* the accessors, the deep probe and unmake are called on a Live handle
\* only, make on an Unconstructed one only and at most once; find, check,
\* info and help never make a handle.
C10_HandleLifecycle == []C10_CallsOnLiveHandle /\ [][C10_HandleStep]_vars

C10_Witness ==
    /\ pc = "done"
    /\ ran = <<"make">>
    /\ device = "Released"
    /\ Fns = <<"make", "getDriverKey", "getHardwareKey", "getHardwareInfo",
               "unmake">>
====
